---- MODULE Spec2Model ----
(***************************************************************************)
(* A model of the yt-dl web front-end: src/app/main.py (the current        *)
(* handler) and src/app/main copy.py (the earlier iteration kept beside    *)
(* it).  A request is received, validated, given a workspace directory    *)
(* under the download root, handed to the extraction tool, and its output  *)
(* is renamed to a sanitized title; a second route serves a file by        *)
(* (filename, job_dir).                                                    *)
(*                                                                         *)
(* Strings are sequences of one-character strings, so that prefixes,       *)
(* separators and single characters are what the code sees.  An optional   *)
(* value is a sequence of length at most one: <<>> is None, <<v>> is v.    *)
(***************************************************************************)
EXTENDS Naturals, Sequences, FiniteSets

VARIABLES
    app,        \* which module is deployed: "main" (main.py) or "copy" (main copy.py)
    fs,         \* the filesystem: canonical absolute path -> node
    pc,         \* per request: position in the /download handler
    req,        \* per request: the form fields, held until extract_info has used the url
    codec,      \* per request: local codec
    job_dir,    \* per request: the workspace directory name mkdtemp returned
    ydl_opts,   \* per request: the options the extraction tool was given
    info,       \* per request: what extract_info returned
    written,    \* per request: the bytes the extraction tool wrote as its output file
    resp,       \* per request: the HTTP response of /download
    served      \* the HTTP response of the last /download_file request

vars == <<app, fs, pc, req, codec, job_dir, ydl_opts, info, written, resp, served>>

\* ------------------------------------------------------------------ bounds

\* Number of /download requests (they may run concurrently).
NReq == 2
\* Longest title the extraction tool reports.
MaxTitleLen == 1

\* Longest title drawn for the sanitization of titles on its own.
MaxSanitizeLen == 2

\* Longest title drawn for the download link.
MaxLinkLen == 3

Requests == 1..NReq

\* ------------------------------------------------------------------ strings

None == <<>>
Some(v) == <<v>>

S_http == <<"h", "t", "t", "p", ":", "/", "/">>
S_https == <<"h", "t", "t", "p", "s", ":", "/", "/">>
S_mp3 == <<"m", "p", "3">>
S_wav == <<"w", "a", "v">>
S_webm == <<"w", "e", "b", "m">>
S_dot == <<".">>
S_dotdot == <<".", ".">>
S_tmp == <<"t", "m", "p">>
S_root == <<"y", "t", "_", "a", "u", "d", "i", "o", "_", "d", "o", "w", "n", "l", "o", "a", "d", "s">>
S_etc == <<"e", "t", "c">>
S_secrets == <<"s", "e", "c", "r", "e", "t", "s">>
S_srv == <<"s", "r", "v">>
S_cookies_txt == <<"c", "o", "o", "k", "i", "e", "s", ".", "t", "x", "t">>
S_prefix == <<"y", "t", "_">>
S_placeholder == <<"d", "o", "w", "n", "l", "o", "a", "d", "e", "d", "_", "a", "u", "d", "i", "o">>

\* str.startswith
StartsWith(s, p) == Len(s) >= Len(p) /\ SubSeq(s, 1, Len(p)) = p
\* str.endswith
EndsWith(s, p) == Len(s) >= Len(p) /\ SubSeq(s, Len(s) - Len(p) + 1, Len(s)) = p

\* All sequences over S of length at most n.
RECURSIVE SeqsUpTo(_, _)
SeqsUpTo(S, n) ==
    IF n = 0 THEN {<<>>}
    ELSE LET shorter == SeqsUpTo(S, n - 1)
         IN  shorter \cup {Append(s, c) : s \in shorter, c \in S}

\* "/".join(segs)
RECURSIVE JoinSlash(_)
JoinSlash(segs) ==
    IF segs = <<>> THEN <<>>
    ELSE IF Len(segs) = 1 THEN Head(segs)
    ELSE Head(segs) \o <<"/">> \o JoinSlash(Tail(segs))

\* ------------------------------------------------------------------ paths

\* The segments of a path string as pathlib keeps them: split at "/", empty
\* and "." segments dropped, ".." kept.
RECURSIVE SplitFrom(_, _, _)
SplitFrom(s, i, cur) ==
    LET keep == IF cur = <<>> \/ cur = S_dot THEN <<>> ELSE <<cur>>
    IN  IF i > Len(s) THEN keep
        ELSE IF s[i] = "/" THEN keep \o SplitFrom(s, i + 1, <<>>)
        ELSE SplitFrom(s, i + 1, Append(cur, s[i]))

SplitPath(s) == SplitFrom(s, 1, <<>>)

\* pathlib's base / s for an absolute base: an absolute s replaces base.
JoinPath(base, s) ==
    IF StartsWith(s, <<"/">>) THEN SplitPath(s) ELSE base \o SplitPath(s)

Parent(p) == IF p = <<>> THEN <<>> ELSE SubSeq(p, 1, Len(p) - 1)

DirNode == [kind |-> "dir", data |-> <<>>]
FileNode(bytes) == [kind |-> "file", data |-> bytes]

Exists(f, p) == p \in DOMAIN f
IsDir(f, p) == Exists(f, p) /\ f[p].kind = "dir"
IsFile(f, p) == Exists(f, p) /\ f[p].kind = "file"

\* The kernel's path walk from the existing node cur: ".." steps to the
\* parent, every step is taken from a directory and must reach an existing
\* node.  Some(canonical path), or None when the path does not resolve.
RECURSIVE Walk(_, _, _)
Walk(f, cur, segs) ==
    IF segs = <<>> THEN Some(cur)
    ELSE IF ~IsDir(f, cur) THEN None
    ELSE LET s == Head(segs)
             nxt == IF s = S_dotdot THEN Parent(cur) ELSE Append(cur, s)
         IN  IF Exists(f, nxt) THEN Walk(f, nxt, Tail(segs)) ELSE None

Resolve(f, p) == Walk(f, <<>>, p)

\* The names directly inside directory d.
Listing(f, d) == {p[Len(p)] : p \in {q \in DOMAIN f : Len(q) = Len(d) + 1 /\ Parent(q) = d}}

\* f with the node at canonical path p set / removed.
WithNode(f, p, node) == [q \in DOMAIN f \cup {p} |-> IF q = p THEN node ELSE f[q]]
WithoutNode(f, p) == [q \in DOMAIN f \ {p} |-> f[q]]

\* ------------------------------------------------------------------ program constants

\* Path(tempfile.gettempdir()) / "yt_audio_downloads"
DOWNLOAD_DIR == <<S_tmp, S_root>>

\* Path(__file__).resolve().parent, the directory the module is deployed in.
BASE_DIR == <<S_srv>>

\* main.py: the secret file location; main copy.py: cookies.txt beside the module.
COOKIES_FILE == IF app = "main" THEN <<S_etc, S_secrets, S_cookies_txt>>
                ELSE BASE_DIR \o <<S_cookies_txt>>

\* The directories that exist when the module is imported
\* (DOWNLOAD_DIR.mkdir(parents=True, exist_ok=True)).
StartDirs == {<<>>, <<S_tmp>>, DOWNLOAD_DIR, <<S_etc>>, <<S_etc, S_secrets>>, BASE_DIR}

\* ------------------------------------------------------------------ inputs

\* The url form field.
Urls == {
    S_http \o <<"a">>,
    S_https \o <<"a">>,
    <<"f", "t", "p", ":", "/", "/", "a">>,
    <<"H", "T", "T", "P", ":", "/", "/", "a">>,
    <<>>
}

\* The format form field.
Formats == {S_mp3, <<"M", "P", "3">>, <<"o", "g", "g">>, <<>>}

Digits == <<"0", "1", "2", "3", "4", "5", "6", "7", "8", "9">>

\* A cookie payload uploaded with request j (the handlers declare no such field).
Payload(j) == <<"p", Digits[j]>>
Uploads(j) == {None, Some(Payload(j))}

\* The process-wide cookie file: missing, empty, or holding cookies.
CookieStates == {None, Some(<<>>), Some(<<"k">>)}

\* Titles the extraction tool may report.
TitleChars == {"a", "/", ":"}
Titles == SeqsUpTo(TitleChars, MaxTitleLen)

\* info["title"]: the key is absent, or null, or a string.
NoTitleKey == [key |-> "absent", val |-> <<>>]
NullTitle == [key |-> "null", val |-> <<>>]
StrTitle(t) == [key |-> "str", val |-> t]
InfoTitles == {NoTitleKey, NullTitle} \cup {StrTitle(t) : t \in Titles}

\* What the tool writes as the transcoded audio: nothing, or some bytes.
AudioBytes == {<<>>, <<"x">>}

\* The text of an exception the tool raises.
ExcTexts == {"HTTP Error 403", "Sign in to confirm"}

\* The media id the tool names its output by (outtmpl "%(id)s.%(ext)s").
MediaId == <<"i", "d">>

\* Directory names tempfile.mkdtemp(prefix="yt_") can return: one per request.
WsName(i) == S_prefix \o <<Digits[i]>>
WsNames == {WsName(i) : i \in Requests}

\* ------------------------------------------------------------------ the handlers' functions

\* A url check that looks for a scheme separator anywhere in the url.
ValidUrl_AnyScheme(u) == \E i \in 1..Len(u) : i + 2 <= Len(u) /\ SubSeq(u, i, i + 2) = <<":", "/", "/">>

\* url.startswith(("http://", "https://"))
ValidUrl(u) == StartsWith(u, S_http) \/ StartsWith(u, S_https)

\* A codec choice that compares the format without regard to case.
ResolveCodec_IgnoreCase(format) ==
    IF format \in {S_mp3, <<"M", "P", "3">>} THEN S_mp3 ELSE S_wav

\* codec = "mp3" if format == "mp3" else "wav"
ResolveCodec(format) == IF format = S_mp3 THEN S_mp3 ELSE S_wav

\* quality = "192" if codec == "mp3" else "0"
Quality(c) == IF c = S_mp3 THEN "192" ELSE "0"

\* A workspace name taken without looking at what the download root holds.
Mkdtemp_NoCheck(f) == WsName(1)

\* tempfile.mkdtemp(prefix="yt_", dir=DOWNLOAD_DIR): it tries candidate names
\* in the order its generator yields them and returns the first that mkdir
\* does not find in the download root.  The names are interchangeable, so the
\* generator's order is fixed here.
Mkdtemp(f) ==
    LET free == {i \in Requests : ~Exists(f, Append(DOWNLOAD_DIR, WsName(i)))}
    IN  WsName(CHOOSE i \in free : \A k \in free : i <= k)

\* main.py: COOKIES_FILE.exists() and COOKIES_FILE.stat().st_size > 0
\* main copy.py: COOKIES_FILE.exists()
CookiesUsable(f) ==
    LET r == Resolve(f, COOKIES_FILE)
    IN  /\ r # None
        /\ app = "main" => Len(f[r[1]].data) > 0

\* A cookie option that points at a cookies.txt inside the first workspace.
CookieOption_InWorkspace(f) == Some(DOWNLOAD_DIR \o <<WsName(1), S_cookies_txt>>)

\* The cookiefile option of ydl_opts: set only when the check passes.
CookieOption(f) == IF CookiesUsable(f) THEN Some(COOKIES_FILE) ELSE None

\* job_dir.glob(f"*.{codec}")
Glob(f, dir, c) == {n \in Listing(f, dir) : EndsWith(n, S_dot \o c)}

\* A character class that takes the space as well.
UnsafeChars_WithSpace == {"\\", "/", "*", "?", ":", "\"", "<", ">", "|", " "}

\* The characters of r'[\\/*?:"<>|]'.
UnsafeChars == {"\\", "/", "*", "?", ":", "\"", "<", ">", "|"}

\* re.sub(<class of chars>, "_", title) and str.replace(c, "_") for one-character c.
ReplaceChars(chars, title) ==
    [i \in 1..Len(title) |-> IF title[i] \in chars THEN "_" ELSE title[i]]

\* A sanitization that replaces the path separator only.
SafeTitle_SlashOnly(title) == ReplaceChars({"/"}, title)

\* main.py: re.sub(r'[\\/*?:"<>|]', "_", title); main copy.py: title.replace("/", "_")
SafeTitle(title) ==
    IF app = "main" THEN ReplaceChars(UnsafeChars, title)
    ELSE ReplaceChars({"/"}, title)

\* final_name = f"{safe_title}.{codec}"
FinalName(title, c) == SafeTitle(title) \o S_dot \o c

\* os.rename(src, dst) for a canonical src and a pathlib dst: Some(filesystem
\* after), or None when it raises (the parent of dst does not resolve to a
\* directory, or dst is a directory).
Rename(f, src, dst) ==
    LET par == Resolve(f, Parent(dst))
        to == Append(par[1], dst[Len(dst)])
    IN  IF dst = <<>> \/ par = None THEN None
        ELSE IF ~IsDir(f, par[1]) \/ IsDir(f, to) THEN None
        ELSE Some(WithNode(WithoutNode(f, src), to, f[src]))

\* ------------------------------------------------------------------ responses

NoReq == [url |-> <<>>, format |-> <<>>, live |-> FALSE]

\* What the framework passes to download_youtube(url, format) from the posted
\* form: the handler declares these two fields only, so an uploaded cookie
\* payload is dropped when the form is parsed.
FormFields(u, f, upload) == [url |-> u, format |-> f, live |-> TRUE]
NoOpts == [preferredcodec |-> <<>>, preferredquality |-> "", cookiefile |-> None, called |-> FALSE]
NoInfo == [title |-> NoTitleKey, returned |-> FALSE]
NoResp == [status |-> 0, detail |-> <<>>, final_name |-> <<>>, job_dir |-> <<>>, title |-> <<>>]

\* raise HTTPException(status_code=..., detail=...), and an exception no
\* handler catches (the framework answers 500 "Internal Server Error").
HttpError(status, detail) ==
    [status |-> status, detail |-> detail, final_name |-> <<>>, job_dir |-> <<>>, title |-> <<>>]
Unhandled == HttpError(500, <<"Internal Server Error">>)

InvalidUrlError == HttpError(400, <<"Invalid YouTube URL.">>)

\* except Exception as e: main.py answers a fixed detail, main copy.py
\* f"Download failed: {e}".
ExtractError(e) ==
    IF app = "main"
    THEN HttpError(500, <<"YouTube blocked this request. Cookies may be missing or expired.">>)
    ELSE HttpError(500, <<"Download failed: ", e>>)

\* if not file_path: raise HTTPException(500, ...)
NoOutputError ==
    IF app = "main" THEN HttpError(500, <<"Audio conversion failed.">>)
    ELSE HttpError(500, <<"Conversion failed.">>)

\* The result page: title, and the handle (final_name, job_dir.name) the download link is built from.
\* main copy.py returns the title with "/" already replaced.
ResultPage(final_name, dir, title) ==
    [status |-> 200, detail |-> <<>>, final_name |-> final_name, job_dir |-> dir,
     title |-> IF app = "main" THEN title ELSE SafeTitle(title)]

NoServed == [filename |-> <<>>, job_dir |-> <<>>, status |-> 0, body |-> <<>>]

\* ------------------------------------------------------------------ initial state

\* The module has been imported: the download root exists and is empty, no
\* request has arrived; the process-wide cookie file is in one of its states.
InitFs(cookie) ==
    LET dirs == [p \in StartDirs |-> DirNode]
    IN  IF cookie = None THEN dirs ELSE WithNode(dirs, COOKIES_FILE, FileNode(cookie[1]))

InitWith(a) ==
    /\ app = a
    /\ \E cookie \in CookieStates : fs = InitFs(cookie)
    /\ pc = [j \in Requests |-> "idle"]
    /\ req = [j \in Requests |-> NoReq]
    /\ codec = [j \in Requests |-> <<>>]
    /\ job_dir = [j \in Requests |-> None]
    /\ ydl_opts = [j \in Requests |-> NoOpts]
    /\ info = [j \in Requests |-> NoInfo]
    /\ written = [j \in Requests |-> None]
    /\ resp = [j \in Requests |-> NoResp]
    /\ served = NoServed

Init == InitWith("main")
InitCopy == InitWith("copy")

\* ------------------------------------------------------------------ POST /download

\* A workspace path that is the first workspace for every request.
JobPath_First(j) == Append(DOWNLOAD_DIR, WsName(1))

\* The workspace directory of request j, as a path.
JobPath(j) == Append(DOWNLOAD_DIR, job_dir[j][1])

\* A POST /download arrives with its form fields, with or without an uploaded
\* cookie payload.  Requests are numbered in the order they arrive.
Receive(j) ==
    /\ pc[j] = "idle"
    /\ \A k \in Requests : k < j => pc[k] # "idle"
    /\ \E u \in Urls, f \in Formats, c \in Uploads(j) :
          req' = [req EXCEPT ![j] = FormFields(u, f, c)]
    /\ pc' = [pc EXCEPT ![j] = "received"]
    /\ UNCHANGED <<app, fs, codec, job_dir, ydl_opts, info, written, resp, served>>

\* download_youtube up to the call of the tool: the url check, the codec, and
\* download_audio_with_cookies' mkdtemp and ydl_opts.
DownloadYoutube(j) ==
    /\ pc[j] = "received"
    /\ IF ~ValidUrl(req[j].url)
       THEN /\ resp' = [resp EXCEPT ![j] = InvalidUrlError]
            /\ pc' = [pc EXCEPT ![j] = "done"]
            /\ req' = [req EXCEPT ![j] = NoReq]
            /\ UNCHANGED <<fs, codec, job_dir, ydl_opts>>
       ELSE LET c == ResolveCodec(req[j].format)
                n == Mkdtemp(fs)
            IN  /\ fs' = WithNode(fs, Append(DOWNLOAD_DIR, n), DirNode)
                /\ job_dir' = [job_dir EXCEPT ![j] = Some(n)]
                /\ codec' = [codec EXCEPT ![j] = c]
                /\ ydl_opts' = [ydl_opts EXCEPT ![j] =
                      [preferredcodec |-> c, preferredquality |-> Quality(c),
                       cookiefile |-> CookieOption(fs), called |-> FALSE]]
                /\ pc' = [pc EXCEPT ![j] = "extracting"]
                /\ UNCHANGED <<req, resp>>
    /\ UNCHANGED <<app, info, written, served>>

\* ydl.extract_info(url, download=True) under try/except Exception: the tool
\* raises, or returns after writing <id>.<codec> into the workspace, or
\* returns having left only a file of another extension (its title is then
\* never read).
ExtractInfo(j) ==
    /\ pc[j] = "extracting"
    /\ req' = [req EXCEPT ![j] = NoReq]
    /\ ydl_opts' = [ydl_opts EXCEPT ![j].called = TRUE]
    /\ \/ \E e \in ExcTexts :
             /\ resp' = [resp EXCEPT ![j] = ExtractError(e)]
             /\ pc' = [pc EXCEPT ![j] = "done"]
             /\ UNCHANGED <<fs, info, written>>
       \/ \E t \in InfoTitles, b \in AudioBytes :
             /\ fs' = WithNode(fs, Append(JobPath(j), MediaId \o S_dot \o codec[j]), FileNode(b))
             /\ info' = [info EXCEPT ![j] = [title |-> t, returned |-> TRUE]]
             /\ written' = [written EXCEPT ![j] = Some(b)]
             /\ pc' = [pc EXCEPT ![j] = "sanitizing"]
             /\ UNCHANGED resp
       \/ /\ fs' = WithNode(fs, Append(JobPath(j), MediaId \o S_dot \o S_webm), FileNode(<<"x">>))
          /\ info' = [info EXCEPT ![j] = [title |-> NoTitleKey, returned |-> TRUE]]
             /\ pc' = [pc EXCEPT ![j] = "sanitizing"]
             /\ UNCHANGED <<written, resp>>
    /\ UNCHANGED <<app, codec, job_dir, served>>

\* The rest of download_audio_with_cookies and the result page: glob, title,
\* safe_title, rename, return.
LocateAndRename(j) ==
    /\ pc[j] = "sanitizing"
    /\ pc' = [pc EXCEPT ![j] = "done"]
    /\ LET hits == Glob(fs, JobPath(j), codec[j])
       IN  IF hits = {}
           THEN /\ resp' = [resp EXCEPT ![j] = NoOutputError]
                /\ UNCHANGED fs
           ELSE \E n \in hits :
                IF info[j].title.key = "null"
                THEN /\ resp' = [resp EXCEPT ![j] = Unhandled]
                     /\ UNCHANGED fs
                ELSE LET title == IF info[j].title.key = "absent" THEN S_placeholder
                                  ELSE info[j].title.val
                         final_name == FinalName(title, codec[j])
                         moved == Rename(fs, Append(JobPath(j), n), JoinPath(JobPath(j), final_name))
                     IN  IF moved = None
                         THEN /\ resp' = [resp EXCEPT ![j] = Unhandled]
                              /\ UNCHANGED fs
                         ELSE /\ fs' = moved[1]
                              /\ resp' = [resp EXCEPT ![j] =
                                    ResultPage(final_name, job_dir[j][1], title)]
    /\ UNCHANGED <<app, req, codec, job_dir, ydl_opts, info, written, served>>

\* ------------------------------------------------------------------ GET /download_file

\* main.py takes filename and job_dir from the query string; main copy.py
\* takes filename from the path, where the router matches one non-empty
\* segment without "/" and answers 404 itself otherwise.
Routed(filename) ==
    app = "main" \/ (filename # <<>> /\ \A i \in 1..Len(filename) : filename[i] # "/")

\* A lookup that leaves the workspace out of the path.
FilePath_NoJobDir(filename, dir) == JoinPath(DOWNLOAD_DIR, filename)

\* file_path = DOWNLOAD_DIR / job_dir / filename
FilePath(filename, dir) == JoinPath(JoinPath(DOWNLOAD_DIR, dir), filename)

\* A serve_file that lets the missing path reach FileResponse, which raises (500).
ServeFileResponse_NoExistsCheck(f, filename, dir) ==
    LET r == Resolve(f, FilePath(filename, dir))
        answer(status, body) ==
            [filename |-> filename, job_dir |-> dir, status |-> status, body |-> body]
    IN  IF ~Routed(filename) THEN answer(404, <<>>)
        ELSE IF r # None /\ IsFile(f, r[1]) THEN answer(200, f[r[1]].data)
        ELSE answer(500, <<>>)

\* serve_file: 404 unless file_path.exists(); FileResponse then streams a
\* regular file, and raises (500) when the path is not a regular file.
ServeFileResponse(f, filename, dir) ==
    LET r == Resolve(f, FilePath(filename, dir))
        answer(status, body) ==
            [filename |-> filename, job_dir |-> dir, status |-> status, body |-> body]
    IN  IF ~Routed(filename) THEN answer(404, <<>>)
        ELSE IF r = None THEN answer(404, <<>>)
        ELSE IF IsFile(f, r[1]) THEN answer(200, f[r[1]].data)
        ELSE answer(500, <<>>)

\* The handles /download has returned so far.
Returned == {<<resp[j].final_name, resp[j].job_dir>> : j \in {k \in Requests : resp[k].status = 200}}

\* The workspace names in use.
Allocated == {job_dir[j][1] : j \in {k \in Requests : job_dir[k] # None}}

\* Handles a client may send: those returned; in the first workspace
\* allocated, the directory itself ("" and ".") and a missing file; a missing
\* workspace; and two that leave the download root for the cookie file, by an
\* absolute job_dir and by "../" in the filename.
S_missing_mp3 == <<"x", ".", "m", "p", "3">>
S_missing_dir == S_prefix \o <<"x">>
S_up == <<".", ".", "/">>
Probes == IF WsName(1) \in Allocated
          THEN {<<n, WsName(1)>> : n \in {<<>>, S_dot, S_missing_mp3}}
          ELSE {}
Handles ==
    Returned
    \cup Probes
    \cup {<<S_missing_mp3, S_missing_dir>>,
          <<S_cookies_txt, <<"/">> \o JoinSlash(Parent(COOKIES_FILE))>>,
          <<S_up \o JoinSlash(COOKIES_FILE), S_dotdot>>}

ServeFile ==
    /\ \E h \in Handles : served' = ServeFileResponse(fs, h[1], h[2])
    /\ UNCHANGED <<app, fs, pc, req, codec, job_dir, ydl_opts, info, written, resp>>

\* ------------------------------------------------------------------ specification

Next ==
    \/ \E j \in Requests : Receive(j)
    \/ \E j \in Requests : DownloadYoutube(j)
    \/ \E j \in Requests : ExtractInfo(j)
    \/ \E j \in Requests : LocateAndRename(j)
    \/ ServeFile

\* main.py deployed.
Spec == Init /\ [][Next]_vars

\* main copy.py deployed.
SpecCopy == InitCopy /\ [][Next]_vars

\* ------------------------------------------------------------------ title sanitization on its own

\* Titles over the nine characters of the class, a lower-case and an
\* upper-case letter, the space and a non-ASCII letter, and the title
\* 'My/Song: Live'.
SanitizeChars == UnsafeChars \cup {"a", "A", " ", "é"}
S_MySongLive == <<"M", "y", "/", "S", "o", "n", "g", ":", " ", "L", "i", "v", "e">>
SanitizeTitles == SeqsUpTo(SanitizeChars, MaxSanitizeLen) \cup {S_MySongLive}

\* download_audio_with_cookies at line 80 of main.py, the first request's
\* extract_info having returned title t after writing <id>.<codec> for codec c.
Extracted(t, c) ==
    LET first(v, other) == [j \in Requests |-> IF j = 1 THEN v ELSE other]
        ws == Append(DOWNLOAD_DIR, WsName(1))
    IN  /\ app = "main"
        /\ fs = WithNode(WithNode([p \in StartDirs |-> DirNode], ws, DirNode),
                         Append(ws, MediaId \o S_dot \o c), FileNode(<<"x">>))
        /\ pc = first("sanitizing", "idle")
        /\ req = [j \in Requests |-> NoReq]
        /\ codec = first(c, <<>>)
        /\ job_dir = first(Some(WsName(1)), None)
        /\ ydl_opts = first([preferredcodec |-> c, preferredquality |-> Quality(c),
                             cookiefile |-> None, called |-> TRUE], NoOpts)
        /\ info = first([title |-> StrTitle(t), returned |-> TRUE], NoInfo)
        /\ written = first(Some(<<"x">>), None)
        /\ resp = [j \in Requests |-> NoResp]
        /\ served = NoServed

InitSanitize == \E t \in SanitizeTitles, c \in {S_mp3, S_wav} : Extracted(t, c)

NextSanitize == \E j \in Requests : LocateAndRename(j)

SpecSanitize == InitSanitize /\ [][NextSanitize]_vars

\* ------------------------------------------------------------------ the download link

S_download_file == <<"/", "d", "o", "w", "n", "l", "o", "a", "d", "_", "f", "i", "l", "e">>
S_filename == <<"f", "i", "l", "e", "n", "a", "m", "e">>
S_job_dir == <<"j", "o", "b", "_", "d", "i", "r">>

\* f"/download_file?filename={final_name}&job_dir={job_dir}"
DownloadUrl(final_name, dir) ==
    S_download_file \o <<"?">> \o S_filename \o <<"=">> \o final_name
        \o <<"&">> \o S_job_dir \o <<"=">> \o dir

\* The index of the first c in s, 0 when s holds none.
IndexOf(s, c) ==
    IF \E i \in 1..Len(s) : s[i] = c
    THEN CHOOSE i \in 1..Len(s) : s[i] = c /\ \A k \in 1..(i - 1) : s[k] # c
    ELSE 0

\* The query of a request target: what follows the first "?", the fragment
\* (from the first "#" on) never being sent.
UrlQuery(url) ==
    LET h == IndexOf(url, "#")
        sent == IF h = 0 THEN url ELSE SubSeq(url, 1, h - 1)
        q == IndexOf(sent, "?")
    IN  IF q = 0 THEN <<>> ELSE SubSeq(sent, q + 1, Len(sent))

\* s.split(c)
RECURSIVE SplitOn(_, _)
SplitOn(s, c) ==
    LET i == IndexOf(s, c)
    IN  IF i = 0 THEN <<s>>
        ELSE <<SubSeq(s, 1, i - 1)>> \o SplitOn(SubSeq(s, i + 1, Len(s)), c)

\* The characters the percent escapes over the digits 1 and 4 stand for.
HexPairs ==
    [p \in {<<"4", "1">>, <<"4", "4">>, <<"1", "1">>, <<"1", "4">>} |->
        CASE p = <<"4", "1">> -> "A"
          [] p = <<"4", "4">> -> "D"
          [] p = <<"1", "1">> -> "U+0011"
          [] p = <<"1", "4">> -> "U+0014"]

\* unquote(s.replace("+", " ")): "+" is a space, "%" and two hex digits a
\* character, any other "%" stays.
RECURSIVE Unquote(_)
Unquote(s) ==
    IF s = <<>> THEN <<>>
    ELSE IF Head(s) = "+" THEN <<" ">> \o Unquote(Tail(s))
    ELSE IF Head(s) = "%" /\ Len(s) >= 3 /\ SubSeq(s, 2, 3) \in DOMAIN HexPairs
         THEN <<HexPairs[SubSeq(s, 2, 3)]>> \o Unquote(SubSeq(s, 4, Len(s)))
    ELSE <<Head(s)>> \o Unquote(Tail(s))

\* parse_qsl(query, keep_blank_values=True): the pieces between "&", empty
\* pieces skipped, each split at its first "=" into a name and a value.
RECURSIVE Pairs(_)
Pairs(pieces) ==
    IF pieces = <<>> THEN <<>>
    ELSE LET piece == Head(pieces)
             e == IndexOf(piece, "=")
             name == IF e = 0 THEN piece ELSE SubSeq(piece, 1, e - 1)
             value == IF e = 0 THEN <<>> ELSE SubSeq(piece, e + 1, Len(piece))
         IN  (IF piece = <<>> THEN <<>> ELSE <<<<Unquote(name), Unquote(value)>>>>)
                 \o Pairs(Tail(pieces))

ParseQsl(query) == Pairs(SplitOn(query, "&"))

\* query_params.get(name): the value of the last pair of that name.
QueryGet(pairs, name) ==
    LET at == {i \in 1..Len(pairs) : pairs[i][1] = name}
    IN  IF at = {} THEN None
        ELSE Some(pairs[CHOOSE i \in at : \A k \in at : k <= i][2])

\* Titles over the characters a query string gives a meaning to.
LinkChars == {"z", "&", "#", "%", "+", "=", "4", "1"}
LinkTitles == SeqsUpTo(LinkChars, MaxLinkLen)

InitLink == \E t \in LinkTitles : Extracted(t, S_mp3)

\* The result page's link is followed: serve_file runs with the filename and
\* job_dir the query string yields; a missing required parameter is answered
\* 422 before serve_file runs.
FollowLink ==
    /\ \E j \in Requests :
          /\ resp[j].status = 200
          /\ LET q == ParseQsl(UrlQuery(DownloadUrl(resp[j].final_name, resp[j].job_dir)))
                 filename == QueryGet(q, S_filename)
                 dir == QueryGet(q, S_job_dir)
             IN  served' = IF filename = None \/ dir = None
                           THEN [filename |-> <<>>, job_dir |-> <<>>, status |-> 422, body |-> <<>>]
                           ELSE ServeFileResponse(fs, filename[1], dir[1])
    /\ UNCHANGED <<app, fs, pc, req, codec, job_dir, ydl_opts, info, written, resp>>

NextLink ==
    \/ \E j \in Requests : LocateAndRename(j)
    \/ FollowLink

SpecLink == InitLink /\ [][NextLink]_vars

\* ------------------------------------------------------------------ claims

\* Request j was answered after the tool raised.
ToolRaised(j) == pc[j] = "done" /\ ydl_opts[j].called /\ ~info[j].returned

\* s holds a path separator or a parent reference.
HasSeparatorOrParent(s) ==
    \/ \E i \in 1..Len(s) : s[i] = "/"
    \/ \E i \in 1..Len(s) : i + 1 <= Len(s) /\ s[i] = "." /\ s[i + 1] = "."

\* C1: a submit that allocated a workspace and then failed has left no
\* workspace directory under the download root when it returns its error.
C1_NoResidualWorkspace ==
    \A j \in Requests :
        (pc[j] = "done" /\ job_dir[j] # None /\ resp[j].status = 500)
            => Append(DOWNLOAD_DIR, job_dir[j][1]) \notin DOMAIN fs

\* C2: a /download_file request whose filename or job_dir holds a path
\* separator or a parent reference is never answered with a file: the answer
\* is a rejection or 404, also when the path it names exists on disk.
C2_NoTraversal ==
    (served.status # 0
        /\ (HasSeparatorOrParent(served.filename) \/ HasSeparatorOrParent(served.job_dir)))
    => served.status \in {400, 404, 422}

\* C3: a /download request whose url starts with neither "http://" nor
\* "https://" is answered 400 in the step that handles it, no workspace is
\* allocated and the filesystem is what it was before the call.
C3_IsHttpUrl(u) ==
    \/ (Len(u) >= 7 /\ SubSeq(u, 1, 7) = <<"h", "t", "t", "p", ":", "/", "/">>)
    \/ (Len(u) >= 8 /\ SubSeq(u, 1, 8) = <<"h", "t", "t", "p", "s", ":", "/", "/">>)
C3_InvalidUrlRejected ==
    [][\A j \in Requests :
          (pc[j] = "received" /\ pc'[j] # "received" /\ ~C3_IsHttpUrl(req[j].url))
              => /\ pc'[j] = "done"
                 /\ resp'[j].status = 400
                 /\ job_dir'[j] = None
                 /\ fs' = fs]_vars
C3_Witness ==
    \E j \in Requests : pc[j] = "done" /\ resp[j].status = 400 /\ job_dir[j] = None

\* C4: after a successful submit the workspace holds exactly one file; it is
\* named by the title with each of \ / * ? : " < > | replaced by "_", then
\* "." and the codec, and the name holds none of those characters.
C4_Unsafe == {"\\", "/", "*", "?", ":", "\"", "<", ">", "|"}
C4_OneSanitizedFile ==
    \A j \in Requests :
        resp[j].status = 200 =>
            LET dir == Append(DOWNLOAD_DIR, resp[j].job_dir)
                name == resp[j].final_name
                title == resp[j].title
            IN  /\ Listing(fs, dir) = {name}
                /\ fs[Append(dir, name)].kind = "file"
                /\ Len(name) = Len(title) + 1 + Len(codec[j])
                /\ \A i \in 1..Len(title) :
                      name[i] = IF title[i] \in C4_Unsafe THEN "_" ELSE title[i]
                /\ SubSeq(name, Len(title) + 1, Len(name)) = <<".">> \o codec[j]
                /\ \A i \in 1..Len(name) : name[i] \notin C4_Unsafe
C4_Witness ==
    \E j \in Requests :
        /\ resp[j].status = 200
        /\ \E i \in 1..Len(resp[j].title) : resp[j].title[i] = ":"

\* C5: after a successful submit with handle (final_name, job_dir), every
\* /download_file request for that handle is answered 200 with the bytes the
\* tool wrote, and a /download_file request changes nothing on disk.
C5_RoundTrip ==
    /\ [](\A j \in Requests :
            (resp[j].status = 200 /\ served.status # 0
                /\ served.filename = resp[j].final_name /\ served.job_dir = resp[j].job_dir)
            => (served.status = 200 /\ served.body = written[j][1]))
    /\ [][served' # served => fs' = fs]_vars
C5_Witness ==
    \E j \in Requests :
        /\ resp[j].status = 200
        /\ served.filename = resp[j].final_name /\ served.job_dir = resp[j].job_dir
        /\ served.status = 200 /\ served.body = <<"x">>

\* C6: when the tool returns normally but its output file has zero bytes,
\* submit answers 500 and returns no handle.
C6_EmptyOutputFails ==
    \A j \in Requests :
        (pc[j] = "done" /\ written[j] = Some(<<>>))
            => (resp[j].status = 500 /\ resp[j].final_name = <<>> /\ resp[j].job_dir = <<>>)

\* C7: when the tool raises, the error detail does not depend on the
\* exception: any two requests answered after the tool raised carry the same
\* response.
C7_FixedErrorDetail ==
    \A j, k \in Requests : (ToolRaised(j) /\ ToolRaised(k)) => resp[j] = resp[k]

\* C8: the codec handed to the tool is mp3 when the format field is exactly
\* "mp3" and wav for every other value; no other codec is handed over, and a
\* request with an http(s) url reaches the tool whatever its format.
C8_CodecResolution ==
    /\ [](\A j \in Requests :
            /\ pc[j] = "extracting" =>
                  ydl_opts[j].preferredcodec =
                      IF req[j].format = <<"m", "p", "3">> THEN <<"m", "p", "3">>
                      ELSE <<"w", "a", "v">>
            /\ ydl_opts[j].called =>
                  ydl_opts[j].preferredcodec \in {<<"m", "p", "3">>, <<"w", "a", "v">>})
    /\ [][\A j \in Requests :
            (pc[j] = "received" /\ pc'[j] # "received" /\ C3_IsHttpUrl(req[j].url))
                => (pc'[j] = "extracting" /\ resp'[j].status = 0
                    /\ req'[j].format = req[j].format)]_vars
C8_Witness ==
    \E j \in Requests :
        /\ pc[j] = "extracting"
        /\ req[j].format = <<"M", "P", "3">>
        /\ ydl_opts[j].preferredcodec = <<"w", "a", "v">>

\* C9: no workspace directory is held by two requests.
C9_DistinctWorkspaces ==
    \A j, k \in Requests :
        (j # k /\ job_dir[j] # None /\ job_dir[k] # None) => job_dir[j] # job_dir[k]
C9_Witness ==
    \E j, k \in Requests :
        j # k /\ pc[j] = "extracting" /\ pc[k] = "extracting"

\* C10: the cookie file handed to a request's extraction call is never a path
\* under the download root (so never inside another request's workspace) and
\* never holds a payload uploaded with a request; this covers every request,
\* the ones without a payload among them.
C10_CookieIsolation ==
    \A j \in Requests :
        (pc[j] # "idle" /\ pc[j] # "received" /\ ydl_opts[j].cookiefile # None) =>
            LET path == ydl_opts[j].cookiefile[1]
            IN  /\ SubSeq(path, 1, Len(DOWNLOAD_DIR)) # DOWNLOAD_DIR
                /\ path \in DOMAIN fs
                /\ fs[path].data \notin {Payload(k) : k \in Requests}
C10_Witness ==
    \E j, k \in Requests :
        /\ j # k /\ pc[j] = "extracting" /\ pc[k] = "sanitizing"
        /\ ydl_opts[j].cookiefile # None /\ ydl_opts[k].cookiefile # None

\* A plain name: not empty, not "." or "..", and without a separator.
PlainName(s) ==
    /\ s # <<>> /\ s # <<".">> /\ s # <<".", ".">>
    /\ \A i \in 1..Len(s) : s[i] # "/"

C12_MapChar(c) == IF c \in {"\\", "/", "*", "?", ":", "\"", "<", ">", "|"} THEN "_" ELSE c
C12_CharByChar ==
    \A j \in Requests :
        (pc[j] = "done" /\ info[j].title.key = "str") =>
            LET t == info[j].title.val
                n == resp[j].final_name
            IN  /\ resp[j].status = 200
                /\ Len(n) = Len(t) + 1 + Len(codec[j])
                /\ \A i \in 1..Len(t) : n[i] = C12_MapChar(t[i])
                /\ SubSeq(n, Len(t) + 1, Len(n)) = S_dot \o codec[j]
                /\ (t = S_MySongLive /\ codec[j] = S_mp3) =>
                      n = <<"M", "y", "_", "S", "o", "n", "g", "_", " ", "L", "i", "v", "e",
                            ".", "m", "p", "3">>
C12_Witness ==
    /\ pc[1] = "done"
    /\ info[1].title = StrTitle(S_MySongLive)
    /\ resp[1].final_name = <<"M", "y", "_", "S", "o", "n", "g", "_", " ", "L", "i", "v", "e",
                              ".", "m", "p", "3">>

\* C13: following the link of a successful result page reaches serve_file
\* with exactly the returned file name and workspace id, and so is answered
\* with the file that request produced.
C13_LinkRoundTrip ==
    served.status # 0 =>
        \E j \in Requests :
            /\ resp[j].status = 200
            /\ served.filename = resp[j].final_name
            /\ served.job_dir = resp[j].job_dir
            /\ served.status = 200
            /\ served.body = written[j][1]

\* C14: a request that allocated a workspace goes from extracting to
\* sanitizing to its answer and stays there, and when its handler has returned
\* it is in exactly one of two ends: answered 200 with its artifact in the
\* workspace, or failed with its workspace gone; none is left failed with its
\* workspace on disk.
C14_Ready(j) ==
    /\ pc[j] = "done" /\ resp[j].status = 200
    /\ Append(JobPath(j), resp[j].final_name) \in DOMAIN fs
C14_CleanedUp(j) ==
    /\ pc[j] = "done" /\ resp[j].status # 200
    /\ Append(DOWNLOAD_DIR, job_dir[j][1]) \notin DOMAIN fs
C14_ReadyOrCleanedUp ==
    /\ [](\A j \in Requests :
            (pc[j] = "done" /\ job_dir[j] # None) => (C14_Ready(j) # C14_CleanedUp(j)))
    /\ [][\A j \in Requests :
            /\ pc[j] = "done" => pc'[j] = "done"
            /\ (pc'[j] = "sanitizing" /\ pc[j] # "sanitizing") => pc[j] = "extracting"
            /\ (job_dir'[j] # None /\ pc'[j] = "done" /\ resp'[j].status = 200 /\ pc[j] # "done")
                  => pc[j] = "sanitizing"]_vars

\* C15: once a request has been answered 200, every later step of any
\* request (/download or /download_file) leaves its workspace directory in
\* place, holding its one file under the returned name with the same bytes.
C15_Ws(j) == <<S_tmp, S_root, resp[j].job_dir>>
C15_File(j) == <<S_tmp, S_root, resp[j].job_dir, resp[j].final_name>>
C15_ArtifactKept ==
    [][\A j \in Requests :
          resp[j].status = 200 =>
              /\ resp'[j] = resp[j]
              /\ C15_Ws(j) \in DOMAIN fs' /\ fs'[C15_Ws(j)].kind = "dir"
              /\ C15_File(j) \in DOMAIN fs /\ C15_File(j) \in DOMAIN fs'
              /\ fs'[C15_File(j)] = fs[C15_File(j)]
              /\ {q \in DOMAIN fs' : Len(q) > 3 /\ SubSeq(q, 1, 3) = C15_Ws(j)} = {C15_File(j)}]_vars
C15_Witness ==
    /\ resp[1].status = 200 /\ resp[2].status = 200
    /\ served.status = 200 /\ served.job_dir = resp[2].job_dir
    /\ C15_File(1) \in DOMAIN fs
    /\ resp[1].final_name = resp[2].final_name

\* C16: a request that reached the tool's options carries the cookiefile
\* option exactly when the process-wide cookie file exists and is not empty;
\* with the file missing or empty the option is absent and the request still
\* reaches the tool.
C16_CookiePassedIffNonEmpty ==
    \A j \in Requests :
        job_dir[j] # None =>
            LET nonEmpty == COOKIES_FILE \in DOMAIN fs /\ fs[COOKIES_FILE].data # <<>>
            IN  /\ nonEmpty => ydl_opts[j].cookiefile = Some(COOKIES_FILE)
                /\ ~nonEmpty => ydl_opts[j].cookiefile = None
                /\ pc[j] \in {"extracting", "sanitizing"} \/ ydl_opts[j].called

\* C17: when the tool returned its output file and an info without a title
\* (the key absent, or present with a null value), the request is answered
\* 200 with the title "downloaded_audio" and the file name
\* downloaded_audio.<codec>.
C17_PlaceholderTitle ==
    \A j \in Requests :
        (pc[j] = "done" /\ info[j].returned /\ written[j] # None
            /\ info[j].title.key \in {"absent", "null"})
        => /\ resp[j].status = 200
           /\ resp[j].title = <<"d", "o", "w", "n", "l", "o", "a", "d", "e", "d", "_",
                                "a", "u", "d", "i", "o">>
           /\ resp[j].final_name = resp[j].title \o <<".">> \o codec[j]

\* C18: a /download_file request is answered 200 only when its path resolves
\* to a regular file directly inside an allocated workspace directory, and a
\* request whose filename is empty or "." in an allocated workspace, whose
\* path is the workspace directory itself, is answered 404.
C18_OnlyWorkspaceFiles ==
    [][served' # served =>
          LET r == Resolve(fs, FilePath(served'.filename, served'.job_dir))
          IN  /\ (served'.filename \in {<<>>, <<".">>} /\ served'.job_dir \in Allocated)
                    => served'.status = 404
              /\ served'.status = 200 =>
                    /\ r # None /\ IsFile(fs, r[1])
                    /\ Len(r[1]) = Len(DOWNLOAD_DIR) + 2
                    /\ SubSeq(r[1], 1, Len(DOWNLOAD_DIR)) = DOWNLOAD_DIR
                    /\ r[1][Len(DOWNLOAD_DIR) + 1] \in Allocated]_vars

====
